---- MODULE Spec2Model ----
(***************************************************************************)
(* Model of quijy/gen.py: the Pauli lookup sig and the Heisenberg          *)
(* Hamiltonian builder ham_heis.  Matrices are modelled entry by entry     *)
(* over Gaussian integers (pairs <<re, im>>), in a sparse or a dense       *)
(* representation; the linear-algebra helpers of quijy.core (qonvert,      *)
(* kron, eye, eyepad) are modelled from their description.                 *)
(***************************************************************************)
EXTENDS Integers, Sequences, FiniteSets

VARIABLES frame, probe

vars == <<frame, probe>>

\* ---------------------------------------------------------------- bounds
MaxN == 3
MaxJ == 1

\* ------------------------------------------------------- complex numbers
Zero == <<0, 0>>
One == <<1, 0>>
CAdd(x, y) == <<x[1] + y[1], x[2] + y[2]>>
CMul(x, y) == <<x[1] * y[1] - x[2] * y[2], x[1] * y[2] + x[2] * y[1]>>
CScale(k, x) == <<k * x[1], k * x[2]>>
Conj(x) == <<x[1], 0 - x[2]>>

Pow2(k) == 2 ^ k

\* --------------------------------------------------------------- matrices
\* A matrix is [sparse, shape, data]: shape is the side of the square
\* matrix, data maps <<row, col>> to its entry.  A sparse matrix stores its
\* nonzero entries only, a dense one stores every entry.
Positions(d) == (0 .. d - 1) \X (0 .. d - 1)
NoData == [p \in {} |-> Zero]

\* Python's None (an unset local, or the value a function falls off with).
None == [sparse |-> FALSE, shape |-> 0, data |-> NoData]
\* An exception raised by an operation; it propagates through what uses it.
Raised == [sparse |-> FALSE, shape |-> 0 - 1, data |-> NoData]

IsMatrix(m) == m.shape >= 1

At(m, p) == IF p \in DOMAIN m.data THEN m.data[p] ELSE Zero

\* The stored form of the entries f of a d x d matrix.
Store(sp, d, f) ==
    [sparse |-> sp, shape |-> d,
     data |-> IF sp
              THEN [p \in {q \in DOMAIN f : f[q] # Zero} |-> f[p]]
              ELSE [p \in Positions(d) |->
                       IF p \in DOMAIN f THEN f[p] ELSE Zero]]

qonvert(rows, sp) ==
    Store(sp, Len(rows),
          [p \in Positions(Len(rows)) |-> rows[p[1] + 1][p[2] + 1]])

eye(d, sp) ==
    Store(sp, d, [p \in {<<k, k>> : k \in 0 .. d - 1} |-> One])

kron(a, b) ==
    IF ~IsMatrix(a) \/ ~IsMatrix(b) THEN Raised
    ELSE LET db == b.shape
             cand == {<<p[1] * db + q[1], p[2] * db + q[2]>> :
                          p \in DOMAIN a.data, q \in DOMAIN b.data}
         IN Store(a.sparse \/ b.sparse, a.shape * db,
                  [p \in cand |->
                      CMul(a.data[<<p[1] \div db, p[2] \div db>>],
                           b.data[<<p[1] % db, p[2] % db>>])])

Scale(k, a) ==
    IF ~IsMatrix(a) THEN Raised
    ELSE Store(a.sparse, a.shape, [p \in DOMAIN a.data |-> CScale(k, a.data[p])])

Add(a, b) ==
    IF ~IsMatrix(a) \/ ~IsMatrix(b) \/ a.shape # b.shape THEN Raised
    ELSE Store(a.sparse /\ b.sparse, a.shape,
               [p \in DOMAIN a.data \cup DOMAIN b.data |->
                   CAdd(At(a, p), At(b, p))])

Sub(a, b) == Add(a, Scale(0 - 1, b))

todense(a) ==
    IF ~IsMatrix(a) \/ ~a.sparse THEN Raised
    ELSE Store(FALSE, a.shape, a.data)

\* eyepad(a, dims, inds): a on every site listed in inds (0-based), the
\* identity of the site's dimension on every other site of dims.
RECURSIVE eyepadFrom(_, _, _, _)
eyepadFrom(a, dims, inds, s) ==
    IF s > Len(dims) THEN eye(1, a.sparse)
    ELSE kron(IF \E k \in 1 .. Len(inds) : inds[k] = s - 1
              THEN a ELSE eye(dims[s], a.sparse),
              eyepadFrom(a, dims, inds, s + 1))

eyepad(a, dims, inds) ==
    IF ~IsMatrix(a) THEN Raised ELSE eyepadFrom(a, dims, inds, 1)

\* -------------------------------------------------------------------- sig
I1 == <<0, 1>>
SigKeys == {"0", "1", "2", "3", "4", "x", "X", "y", "Y", "z", "Z", "i", "I"}

\* sig with the j of Y's lower entry dropped.
sigDropJ(xyz, sp) ==
    IF xyz \in {"1", "x", "X"}
        THEN qonvert(<<<<Zero, One>>, <<One, Zero>>>>, sp)
    ELSE IF xyz \in {"2", "y", "Y"}
        THEN qonvert(<<<<Zero, CScale(0 - 1, I1)>>, <<One, Zero>>>>, sp)
    ELSE IF xyz \in {"3", "z", "Z"}
        THEN qonvert(<<<<One, Zero>>, <<Zero, CScale(0 - 1, One)>>>>, sp)
    ELSE IF xyz \in {"0", "i", "I"}
        THEN qonvert(<<<<One, Zero>>, <<Zero, One>>>>, sp)
    ELSE None

sig(xyz, sp) ==
    IF xyz \in {"1", "x", "X"}
        THEN qonvert(<<<<Zero, One>>, <<One, Zero>>>>, sp)
    ELSE IF xyz \in {"2", "y", "Y"}
        THEN qonvert(<<<<Zero, CScale(0 - 1, I1)>>, <<I1, Zero>>>>, sp)
    ELSE IF xyz \in {"3", "z", "Z"}
        THEN qonvert(<<<<One, Zero>>, <<Zero, CScale(0 - 1, One)>>>>, sp)
    ELSE IF xyz \in {"0", "i", "I"}
        THEN qonvert(<<<<One, Zero>>, <<Zero, One>>>>, sp)
    ELSE None

\* --------------------------------------------------------------- ham_heis
\* The frame of one call: its arguments, its locals, its position and the
\* matrix it returned.
NewFrame(n, jx, jy, jz, bz, periodic, sparse) ==
    [n |-> n, jx |-> jx, jy |-> jy, jz |-> jz, bz |-> bz,
     periodic |-> periodic, sparse |-> sparse,
     dims |-> <<>>, sds |-> None, ham |-> None, i |-> 0,
     pc |-> "sds", ret |-> None]

Args(f) == <<f.n, f.jx, f.jy, f.jz, f.bz, f.periodic, f.sparse>>

Finished(f) == f.pc \in {"done", "raised"}

\* An exception in a step ends the call.
Raise(f) == [f EXCEPT !.pc = "raised"]

\* dims passed whole where dims[:-1] is meant.
ButLastKept(dims) == dims

\* dims[:-1]
ButLast(dims) == IF Len(dims) = 0 THEN dims ELSE SubSeq(dims, 1, Len(dims) - 1)

\* lines 131-135: dims and the two-site block sds
BuildSds(f) ==
    LET dims == [k \in 1 .. f.n |-> 2]
        sds == Sub(Add(Add(Scale(f.jx, kron(sig("x", TRUE), sig("x", TRUE))),
                           Scale(f.jy, kron(sig("y", TRUE), sig("y", TRUE)))),
                       Scale(f.jz, kron(sig("z", TRUE), sig("z", TRUE)))),
                   Scale(f.bz, kron(sig("z", TRUE), eye(2, FALSE))))
    IN IF sds = Raised THEN Raise(f)
       ELSE [f EXCEPT !.dims = dims, !.sds = sds, !.pc = "field"]

\* The field term put on the first spin instead of the last.
FieldTermFirst(f) ==
    LET ham == eyepad(Scale(0 - f.bz, sig("z", TRUE)), f.dims, <<0>>)
    IN IF ham = Raised THEN Raise(f)
       ELSE [f EXCEPT !.ham = ham, !.i = 0,
                      !.pc = IF 0 < f.n - 1 THEN "loop" ELSE "periodic"]

\* line 137: the field term of the last spin
FieldTerm(f) ==
    LET ham == eyepad(Scale(0 - f.bz, sig("z", TRUE)), f.dims, <<f.n - 1>>)
    IN IF ham = Raised THEN Raise(f)
       ELSE [f EXCEPT !.ham = ham, !.i = 0,
                      !.pc = IF 0 < f.n - 1 THEN "loop" ELSE "periodic"]

\* line 139: the addend of iteration i
LoopTerm(f) == eyepad(f.sds, ButLast(f.dims), <<f.i>>)

\* lines 138-139: one iteration of the loop over range(n - 1)
LoopStep(f) ==
    LET ham == Add(f.ham, LoopTerm(f))
    IN IF ham = Raised THEN Raise(f)
       ELSE [f EXCEPT !.ham = ham, !.i = f.i + 1,
                      !.pc = IF f.i + 1 < f.n - 1 THEN "loop" ELSE "periodic"]

\* The ring closed onto site 1 instead of site n - 1.
BoundaryTermNeighbour(f, xyz) == eyepad(sig(xyz, TRUE), f.dims, <<0, 1>>)

\* lines 141-143: one of the three addends closing the ring
BoundaryTerm(f, xyz) == eyepad(sig(xyz, TRUE), f.dims, <<0, f.n - 1>>)

\* lines 140-143
PeriodicStep(f) ==
    LET ham == IF f.periodic
               THEN Add(Add(Add(f.ham, BoundaryTerm(f, "x")),
                            BoundaryTerm(f, "y")),
                        BoundaryTerm(f, "z"))
               ELSE f.ham
    IN IF ham = Raised THEN Raise(f)
       ELSE [f EXCEPT !.ham = ham, !.pc = "convert"]

\* The conversion taken when sparse is set instead of when it is not.
ConvertStepInverted(f) ==
    LET ham == IF f.sparse THEN todense(f.ham) ELSE f.ham
    IN IF ham = Raised THEN Raise(f)
       ELSE [f EXCEPT !.ham = ham, !.ret = ham, !.pc = "done"]

\* lines 144-146
ConvertStep(f) ==
    LET ham == IF ~f.sparse THEN todense(f.ham) ELSE f.ham
    IN IF ham = Raised THEN Raise(f)
       ELSE [f EXCEPT !.ham = ham, !.ret = ham, !.pc = "done"]

StepFrame(f) ==
    CASE f.pc = "sds" -> BuildSds(f)
      [] f.pc = "field" -> FieldTerm(f)
      [] f.pc = "loop" -> LoopStep(f)
      [] f.pc = "periodic" -> PeriodicStep(f)
      [] f.pc = "convert" -> ConvertStep(f)
      [] OTHER -> f

RECURSIVE RunFrame(_)
RunFrame(f) == IF Finished(f) THEN f ELSE RunFrame(StepFrame(f))

\* A call run alone, from its arguments to its outcome.
ham_heis(n, jx, jy, jz, bz, periodic, sparse) ==
    RunFrame(NewFrame(n, jx, jy, jz, bz, periodic, sparse))

\* ------------------------------------------------------------ the program
NRange == (0 - 1) .. MaxN
JRange == (0 - 1) .. MaxJ

ArgFrames ==
    {NewFrame(n, jx, jy, jz, bz, periodic, sparse) :
        n \in NRange, jx \in JRange, jy \in JRange, jz \in JRange,
        bz \in JRange, periodic \in BOOLEAN, sparse \in BOOLEAN}

Calls == DOMAIN frame

\* sds kept in one module-level slot (the first call's) instead of a local.
OwnShared(fr, c) == [fr[c] EXCEPT !.sds = fr[1].sds]

\* The locals a call works on are its own.
Own(fr, c) == fr[c]

IdleProbe == [keys |-> <<"x", "x">>, sparse |-> FALSE, rets |-> <<None, None>>,
              done |-> <<TRUE, TRUE>>]

Init ==
    /\ frame \in [{1} -> ArgFrames]
    /\ probe = IdleProbe

Sds(c) ==
    /\ frame[c].pc = "sds"
    /\ frame' = [frame EXCEPT ![c] = BuildSds(Own(frame, c))]
    /\ UNCHANGED probe

Field(c) ==
    /\ frame[c].pc = "field"
    /\ frame' = [frame EXCEPT ![c] = FieldTerm(Own(frame, c))]
    /\ UNCHANGED probe

Loop(c) ==
    /\ frame[c].pc = "loop"
    /\ frame' = [frame EXCEPT ![c] = LoopStep(Own(frame, c))]
    /\ UNCHANGED probe

Periodic(c) ==
    /\ frame[c].pc = "periodic"
    /\ frame' = [frame EXCEPT ![c] = PeriodicStep(Own(frame, c))]
    /\ UNCHANGED probe

Convert(c) ==
    /\ frame[c].pc = "convert"
    /\ frame' = [frame EXCEPT ![c] = ConvertStep(Own(frame, c))]
    /\ UNCHANGED probe

Next ==
    \/ \E c \in Calls : Sds(c)
    \/ \E c \in Calls : Field(c)
    \/ \E c \in Calls : Loop(c)
    \/ \E c \in Calls : Periodic(c)
    \/ \E c \in Calls : Convert(c)

Spec == Init /\ [][Next]_vars

\* ------------------------------------------------------- sig called alone
\* Two lookups with keys of their own; integer keys are written as numerals.
InitSig ==
    /\ frame = <<>>
    /\ probe \in [keys : SigKeys \X SigKeys, sparse : BOOLEAN,
                  rets : {<<None, None>>}, done : {<<FALSE, FALSE>>}]

SigCall(k) ==
    /\ ~probe.done[k]
    /\ probe' = [probe EXCEPT !.rets[k] = sig(probe.keys[k], probe.sparse),
                              !.done[k] = TRUE]
    /\ UNCHANGED frame

NextSig == \E k \in 1 .. 2 : SigCall(k)

SpecSig == InitSig /\ [][NextSig]_vars

\* ------------------------------------------------------- concurrent calls
\* Two calls, each with arguments of its own, stepping in any order.
ConcFrames ==
    {NewFrame(n, 1, 1, 1, bz, periodic, sparse) :
        n \in 1 .. MaxN, bz \in 0 .. MaxJ,
        periodic \in BOOLEAN, sparse \in BOOLEAN}

InitConcurrent ==
    /\ frame \in [{1, 2} -> ConcFrames]
    /\ probe = IdleProbe

SpecConcurrent == InitConcurrent /\ [][Next]_vars

\* ---------------------------------------------------- reference operators
\* The Heisenberg chain written entry by entry from the Pauli matrices,
\* site 0 being the most significant bit of a row or column index.
Bit(r, s, n) == (r \div Pow2(n - 1 - s)) % 2

Pauli(P, a, b) ==
    CASE P = "X" -> IF a # b THEN One ELSE Zero
      [] P = "Y" -> IF a = b THEN Zero ELSE IF a = 0 THEN <<0, -1>> ELSE <<0, 1>>
      [] P = "Z" -> IF a # b THEN Zero ELSE IF a = 0 THEN One ELSE <<-1, 0>>
      [] OTHER -> IF a = b THEN One ELSE Zero

IsPauli(m, P) ==
    /\ m.shape = 2
    /\ \A p \in Positions(2) : At(m, p) = Pauli(P, p[1], p[2])

\* Entry p of P acting on every site of sites and the identity elsewhere.
RECURSIVE OnSites(_, _, _, _, _)
OnSites(P, sites, n, s, p) ==
    IF s >= n THEN One
    ELSE LET e == Pauli(IF s \in sites THEN P ELSE "I",
                        Bit(p[1], s, n), Bit(p[2], s, n))
         IN IF e = Zero THEN Zero ELSE CMul(e, OnSites(P, sites, n, s + 1, p))

PairTerm(jx, jy, jz, a, b, n, p) ==
    CAdd(CAdd(CScale(jx, OnSites("X", {a, b}, n, 0, p)),
              CScale(jy, OnSites("Y", {a, b}, n, 0, p))),
         CScale(jz, OnSites("Z", {a, b}, n, 0, p)))

RECURSIVE BulkSum(_, _, _)
BulkSum(f, i, p) ==
    IF i > f.n - 2 THEN Zero
    ELSE CAdd(PairTerm(f.jx, f.jy, f.jz, i, i + 1, f.n, p), BulkSum(f, i + 1, p))

RECURSIVE FieldSum(_, _, _)
FieldSum(f, i, p) ==
    IF i > f.n - 1 THEN Zero
    ELSE CAdd(OnSites("Z", {i}, f.n, 0, p), FieldSum(f, i + 1, p))

OpenChain(f, p) == CAdd(BulkSum(f, 0, p), CScale(0 - f.bz, FieldSum(f, 0, p)))

SameEntries(a, b) ==
    /\ a.shape = b.shape
    /\ \A p \in Positions(a.shape) : At(a, p) = At(b, p)

\* The same call with periodic = False.
OpenRun(f) == ham_heis(f.n, f.jx, f.jy, f.jz, f.bz, FALSE, f.sparse)

\* ----------------------------------------------------------------- claims

\* C1: an open chain of n >= 1 spins returns the sum over adjacent pairs
\* (i, i+1) of jx XX + jy YY + jz ZZ minus bz times the sum of Z over every
\* site, each pair and each site counted once.
C1_OpenChain ==
    \A c \in Calls :
        LET f == frame[c]
        IN (f.n >= 1 /\ ~f.periodic) =>
              /\ f.pc # "raised"
              /\ f.pc = "done" =>
                    /\ f.ret.shape = Pow2(f.n)
                    /\ \A p \in Positions(Pow2(f.n)) : At(f.ret, p) = OpenChain(f, p)

C1_Witness ==
    \E c \in Calls :
        /\ frame[c].pc = "done" /\ ~frame[c].periodic /\ frame[c].n = 3
        /\ frame[c].bz # 0 /\ frame[c].jx = 1 /\ frame[c].jy = 0 - 1
        /\ frame[c].jz = 1

\* C2: for n > 2 the periodic result is the open-chain result plus the
\* boundary terms jx X_0 X_{n-1} + jy Y_0 Y_{n-1} + jz Z_0 Z_{n-1}.
C2_PeriodicWeighted ==
    \A c \in Calls :
        LET f == frame[c]
            open == OpenRun(f).ret
        IN (f.pc = "done" /\ f.periodic /\ f.n > 2) =>
              /\ f.ret.shape = Pow2(f.n)
              /\ \A p \in Positions(Pow2(f.n)) :
                    At(f.ret, p) =
                        CAdd(At(open, p),
                             PairTerm(f.jx, f.jy, f.jz, 0, f.n - 1, f.n, p))

\* C3: for n = 1 and n = 2 a periodic call returns what the open call
\* returns.
C3_NoWrapBelowThree ==
    \A c \in Calls :
        LET f == frame[c]
        IN (Finished(f) /\ f.periodic /\ f.n \in {1, 2}) =>
              /\ f.pc = "done"
              /\ SameEntries(f.ret, OpenRun(f).ret)

\* C4: the matrix returned for n >= 1 equals its conjugate transpose.
C4_Hermitian ==
    \A c \in Calls :
        LET f == frame[c]
        IN (f.pc = "done" /\ f.n >= 1) =>
              \A p \in Positions(f.ret.shape) :
                  At(f.ret, <<p[2], p[1]>>) = Conj(At(f.ret, p))

C4_Witness ==
    \E c \in Calls :
        /\ frame[c].pc = "done" /\ frame[c].n = 3 /\ frame[c].periodic
        /\ frame[c].jy # 0 /\ frame[c].bz # 0
        /\ \E p \in Positions(frame[c].ret.shape) :
              p[1] # p[2] /\ At(frame[c].ret, p) # Zero

\* C5: for n >= 1 no call raises, the result is 2^n x 2^n, and so is the
\* accumulator and every addend: the field term, each two-site block put at
\* position i of dims[:-1], and each boundary term.
C5_Dimension ==
    \A c \in Calls :
        LET f == frame[c]
        IN f.n >= 1 =>
              /\ f.pc # "raised"
              /\ f.pc # "sds" => (f.sds.shape = 4 /\ Len(f.dims) = f.n)
              /\ f.pc \notin {"sds", "field"} => f.ham.shape = Pow2(f.n)
              /\ f.pc = "loop" =>
                    /\ f.i \in 0 .. f.n - 2
                    /\ Len(ButLast(f.dims)) = f.n - 1
                    /\ LoopTerm(f).shape = Pow2(f.n)
              /\ (f.pc = "periodic" /\ f.periodic) =>
                    \A xyz \in {"x", "y", "z"} :
                        BoundaryTerm(f, xyz).shape = Pow2(f.n)
              /\ f.pc = "done" => f.ret.shape = Pow2(f.n)

C5_Witness ==
    \E c \in Calls :
        /\ frame[c].pc = "loop" /\ frame[c].n = 3 /\ frame[c].i = 1
        /\ frame[c].periodic
        /\ LoopTerm(frame[c]).shape = 8

\* C6: the call with sparse = False returns a dense matrix, the call with
\* sparse = True a sparse one, and the two agree entry for entry.
C6_SparseFlag ==
    \A c \in Calls :
        LET f == frame[c]
            other == ham_heis(f.n, f.jx, f.jy, f.jz, f.bz, f.periodic, ~f.sparse)
        IN f.pc = "done" =>
              /\ other.pc = "done"
              /\ f.ret.sparse = f.sparse
              /\ other.ret.sparse = ~f.sparse
              /\ SameEntries(f.ret, other.ret)

C6_Witness ==
    \E c \in Calls :
        /\ frame[c].pc = "done" /\ ~frame[c].sparse /\ frame[c].n = 3
        /\ frame[c].periodic /\ frame[c].bz # 0
        /\ \E p \in DOMAIN frame[c].ret.data : frame[c].ret.data[p] = Zero

\* C7: with jx = jy = jz = 1 and n > 2, the periodic result minus the open
\* result is X_0 X_{n-1} + Y_0 Y_{n-1} + Z_0 Z_{n-1} and nothing else.
C7_UnitRing ==
    \A c \in Calls :
        LET f == frame[c]
            open == OpenRun(f).ret
        IN (f.pc = "done" /\ f.periodic /\ f.n > 2
              /\ f.jx = 1 /\ f.jy = 1 /\ f.jz = 1) =>
              /\ f.ret.shape = Pow2(f.n)
              /\ \A p \in Positions(Pow2(f.n)) :
                    At(f.ret, p) =
                        CAdd(At(open, p), PairTerm(1, 1, 1, 0, f.n - 1, f.n, p))

C7_Witness ==
    \E c \in Calls :
        /\ frame[c].pc = "done" /\ frame[c].periodic /\ frame[c].n = 3
        /\ frame[c].jx = 1 /\ frame[c].jy = 1 /\ frame[c].jz = 1
        /\ frame[c].bz = 0

\* C8: a call with n < 1 ends in an error and never returns a matrix.
C8_RejectsInvalidN ==
    \A c \in Calls : frame[c].n < 1 => frame[c].pc # "done"

\* C9: sig(0) is X, sig(1) is Y, sig(2) is Z, and the integer key and the
\* letter key of the same matrix return the same matrix.
C9_SigNumbering ==
    /\ \A k \in 1 .. 2 :
          probe.done[k] =>
              /\ probe.keys[k] = "0" => IsPauli(probe.rets[k], "X")
              /\ probe.keys[k] = "1" => IsPauli(probe.rets[k], "Y")
              /\ probe.keys[k] = "2" => IsPauli(probe.rets[k], "Z")
    /\ (probe.done[1] /\ probe.done[2]
          /\ probe.keys \in {<<"0", "x">>, <<"1", "y">>, <<"2", "z">>}) =>
              probe.rets[1] = probe.rets[2]

\* Every finished call ended as it ends when run alone, and finished calls
\* with the same arguments returned the same matrix.
RunAlone ==
    /\ \A c \in Calls :
          Finished(frame[c]) =>
              LET f == frame[c]
              IN f = ham_heis(f.n, f.jx, f.jy, f.jz, f.bz, f.periodic, f.sparse)
    /\ \A c \in Calls, d \in Calls :
          (Finished(frame[c]) /\ Finished(frame[d])
              /\ Args(frame[c]) = Args(frame[d])) => frame[c].ret = frame[d].ret

\* C10: under any interleaving of the steps of two calls, each call keeps
\* its arguments and ends as it ends when run alone, and two calls with the
\* same arguments return the same matrix.
C10_Pure ==
    /\ []RunAlone
    /\ [][\A c \in Calls : Args(frame'[c]) = Args(frame[c])]_vars

C10_Witness ==
    /\ frame[1].pc = "done" /\ frame[2].pc = "loop"
    /\ frame[1].n = 3 /\ frame[2].n = 3 /\ frame[2].i = 1
    /\ frame[1].bz # frame[2].bz /\ frame[1].periodic /\ ~frame[2].periodic
====
